---- MODULE Spec2Model ----
(***************************************************************************)
(* Model of datamanager/cloud/split_large_zip/split_zip.py: a Tk window    *)
(* whose "Split zip" button starts a worker thread running process_zip,    *)
(* which splits an extracted Data Manager export into numbered archives.   *)
(*                                                                         *)
(* File names are sequences of one-character strings, so that pathlib's    *)
(* stem/suffix, str.split, the substring test of create_archive and the    *)
(* regular expression of get_pages_by_documents are computed, not assumed. *)
(* File sizes (st_size) are natural numbers.                               *)
(***************************************************************************)
EXTENDS Integers, Sequences, FiniteSets, TLC

\* ------------------------------------------------------------------ bounds
MaxDocs == 2
MaxSize == 2
MaxOverhead == 1
MaxByteCeiling == 4
MaxPageLimit == 3
MaxRows == 3
MaxRuns == 2

\* ------------------------------------------------------- generic helpers
Range(s) == {s[i] : i \in DOMAIN s}

RECURSIVE SumOver(_, _)
\* sum([f[x] for x in S])
SumOver(f, S) ==
  IF S = {} THEN 0
  ELSE LET x == CHOOSE y \in S : TRUE IN f[x] + SumOver(f, S \ {x})

\* all sequences without repetition over S, of length lo..hi
DistinctSeqs(S, lo, hi) ==
  {s \in UNION {[1..n -> S] : n \in lo..hi} :
     \A i, j \in DOMAIN s : i # j => s[i] # s[j]}

SeqsUpTo(S, hi) == UNION {[1..n -> S] : n \in 0..hi}

\* ------------------------------------------------------ string functions
Digits == {"0", "1", "2", "3", "4", "5", "6", "7", "8", "9"}
DigitChars == <<"0", "1", "2", "3", "4", "5", "6", "7", "8", "9">>

RECURSIVE Str(_)
\* str(n) for n >= 0
Str(n) ==
  IF n < 10 THEN <<DigitChars[n + 1]>>
  ELSE Str(n \div 10) \o <<DigitChars[(n % 10) + 1]>>

\* str.rfind("."), 1-based, 0 when there is no dot
RFindDot(name) ==
  LET ds == {i \in DOMAIN name : name[i] = "."}
  IN IF ds = {} THEN 0 ELSE CHOOSE i \in ds : \A j \in ds : j <= i

\* pathlib PurePath.suffix: the last dot counts unless it is the first or
\* the last character of the name
Suffix(name) ==
  LET p == RFindDot(name)
  IN IF 1 < p /\ p < Len(name) THEN SubSeq(name, p, Len(name)) ELSE <<>>

\* pathlib PurePath.stem
Stem(name) ==
  LET p == RFindDot(name)
  IN IF 1 < p /\ p < Len(name) THEN SubSeq(name, 1, p - 1) ELSE name

\* document_name.split(".")[-1]
LastDotPart(name) ==
  SubSeq(name, RFindDot(name) + 1, Len(name))

\* Python's  s in t  on strings
IsSubstring(s, t) ==
  \E i \in 0..(Len(t) - Len(s)) : SubSeq(t, i + 1, i + Len(s)) = s

\* re.search(re.escape(document_name) + "_\d+.jpg", x): unanchored; one or
\* more digits; the unescaped "." matches any one character
PageRegexMatches(document_name, x) ==
  LET L == Len(document_name)
  IN \E i \in 0..Len(x) : \E k \in 1..Len(x) :
       /\ i + L + k + 5 <= Len(x)
       /\ SubSeq(x, i + 1, i + L) = document_name
       /\ x[i + L + 1] = "_"
       /\ \A j \in 1..k : x[i + L + 1 + j] \in Digits
       /\ SubSeq(x, i + L + k + 3, i + L + k + 5) = <<"j", "p", "g">>

\* ------------------------------------------------------------ file names
DOT_JSON == <<".", "j", "s", "o", "n">>
DOT_JPG == <<".", "j", "p", "g">>
DOT_PDF == <<".", "p", "d", "f">>
SCHEMA_JSON == <<"s", "c", "h", "e", "m", "a">> \o DOT_JSON
SPLIT_CSV == <<"s", "p", "l", "i", "t", ".", "c", "s", "v">>

\* change_file_name(path, file_name): f"{path.parent}/{file_name}.{path.suffix}"
change_file_name(name, file_name) == file_name \o <<".">> \o Suffix(name)

\* the temporary manifest of archive number suffix
TempSplitName(suffix) ==
  change_file_name(SPLIT_CSV, Stem(SPLIT_CSV) \o <<"_">> \o Str(suffix))

\* ------------------------------------------------------------------ state
VARIABLES
  images,                \* images/ of the extracted tree: file name -> st_size
  latest,                \* latest/ in iterdir order: <<[name, size], ...>>
  schema_size,           \* st_size of schema.json
  split_size,            \* st_size of split.csv
  split_csv,             \* rows of split.csv as csv.reader yields them
  size_limit_in_bytes,   \* SIZE_LIMIT_IN_BYTES
  page_limit,            \* PAGE_LIMIT
  start_size,            \* Configs.start_size (class attribute, process-wide)
  is_split_in_progress,  \* Window.is_split_in_progress
  button,                \* Window.button["state"]
  error_label,           \* Window.error_label: [shown, text, reason]
  current_zip_no_label,  \* Window.current_zip_no_label: [shown, text, n]
  pc,                    \* position of the worker thread
  idx,                   \* position of the for loop of split_files in latest_paths
  image_names,           \* split_files: image_names
  current_size,          \* split_files: current_size
  archive_count,         \* split_files: archive_count
  exc,                   \* the exception travelling to threading.excepthook
  disk,                  \* output archives in the working directory, by suffix
  create_archive_calls,  \* document lists passed to create_archive in this run
  runs,                  \* history: one record per run that has ended
  window,                \* Window.gui: "open" or "destroyed"
  answer                 \* what the user answered to the "Quit" question, "" if not asked

input == <<images, latest, schema_size, split_size, split_csv,
           size_limit_in_bytes, page_limit>>
gui == <<is_split_in_progress, button, error_label, current_zip_no_label>>
locals == <<idx, image_names, current_size, archive_count>>
user == <<window, answer>>
vars == <<input, start_size, gui, pc, locals, exc, disk, create_archive_calls, runs, user>>

\* ------------------------------------------------------------ split_files
\* image_paths = {path.name: path ...}: the keys
image_paths == DOMAIN images

\* latest_paths = {path.stem: path ...}: the keys, in insertion order
latest_paths == [i \in DOMAIN latest |-> Stem(latest[i].name)]

\* latest_paths[document_name].stat().st_size
LatestSize(document_name) ==
  LET i == CHOOSE j \in DOMAIN latest : Stem(latest[j].name) = document_name
  IN latest[i].size

\* the keys of the multi-page tuple ("pdf", "tiff", "tif")
MultiPageExtensions ==
  {<<"p", "d", "f">>, <<"t", "i", "f", "f">>, <<"t", "i", "f">>}

\* get_pages_by_documents(latest_paths, image_paths)[document_name]
get_pages_by_documents(document_name) ==
  IF LastDotPart(document_name) \in MultiPageExtensions
  THEN {x \in image_paths : PageRegexMatches(document_name, x)}
  ELSE {}

\* size of one document as the loop body computes it (lines 171-172);
\* only evaluated when image_name is a key of image_paths
DocSize(image_name) ==
  images[image_name] + LatestSize(image_name)
    + SumOver(images, get_pages_by_documents(image_name))

FitsCountOffByOne(size, names) ==
  size < size_limit_in_bytes /\ Len(names) <= page_limit

FitsSizeInclusive(size, names) ==
  size <= size_limit_in_bytes /\ Len(names) < page_limit

FitsIgnoresCount(size, names) ==
  size < size_limit_in_bytes

FitsEither(size, names) ==
  size < size_limit_in_bytes \/ Len(names) < page_limit

\* the test of line 174
Fits(size, names) ==
  size < size_limit_in_bytes /\ Len(names) < page_limit

NewPartitionDropsDocument(image_name) == <<>>

\* line 182: image_names = [image_name]
NewPartition(image_name) == <<image_name>>

\* line 181: current_size = Configs.start_size + size
NewPartitionSize(size) == start_size + size

\* --------------------------------------------------------- create_archive
\* the files os.walk(folder_contents_path) yields while archive number
\* suffix is written: [dir, name]; the temporary manifests of the archives
\* written earlier in the run lie next to split.csv
TreeFiles(suffix) ==
  {[dir |-> "images", name |-> n] : n \in image_paths}
    \cup {[dir |-> "latest", name |-> latest[i].name] : i \in DOMAIN latest}
    \cup {[dir |-> "", name |-> SCHEMA_JSON], [dir |-> "", name |-> SPLIT_CSV]}
    \cup {[dir |-> "", name |-> TempSplitName(k)] : k \in 1..(suffix - 1)}

\* line 207: if image_name in file
Matches(image_name, file) == IsSubstring(image_name, file)

\* the files written by the loops of lines 203-211
CopiedFiles(names, suffix) ==
  {f \in TreeFiles(suffix) : \E i \in DOMAIN names : Matches(names[i], f.name)}

\* the number of zip_handle.write calls of lines 208-211: a file is written
\* once for every listed name it contains
CopiedCount(names, suffix) ==
  LET hits == {<<f, i>> \in TreeFiles(suffix) \X DOMAIN names :
                 Matches(names[i], f.name)}
  IN Cardinality(hits)

KeepsRowAlways(row, imgs) == TRUE

\* line 230: if row[0] in images
KeepsRow(row, imgs) == row[1] \in Range(imgs)

RECURSIVE FilterRows(_, _)
FilterRows(rows, imgs) ==
  IF rows = <<>> THEN <<>>
  ELSE (IF KeepsRow(Head(rows), imgs) THEN <<Head(rows)>> ELSE <<>>)
         \o FilterRows(Tail(rows), imgs)

\* the exception process_split_file_one_archive raises, "" when none:
\* next(reader) on a file without rows, row[0] on a blank line
SplitFileError ==
  IF split_csv = <<>> THEN "StopIteration"
  ELSE IF \E i \in 2..Len(split_csv) : split_csv[i] = <<>> THEN "IndexError"
  ELSE ""

\* the lines process_split_file_one_archive writes (lines 224-237)
process_split_file_one_archive(imgs, suffix) ==
  <<Head(split_csv)>> \o FilterRows(Tail(split_csv), imgs)

\* the archive create_archive(folder_contents_path, names, suffix) leaves on
\* disk; when the manifest step raises, the with-statement closes the zip
\* with what was written before it
create_archive(names, suffix) ==
  IF SplitFileError = ""
  THEN [docs |-> names,
        members |-> CopiedFiles(names, suffix)
                      \cup {[dir |-> "", name |-> SCHEMA_JSON],
                            [dir |-> "", name |-> SPLIT_CSV]},
        nfiles |-> CopiedCount(names, suffix) + 2,
        manifest |-> process_split_file_one_archive(names, suffix),
        complete |-> TRUE]
  ELSE [docs |-> names,
        members |-> CopiedFiles(names, suffix)
                      \cup {[dir |-> "", name |-> SCHEMA_JSON]},
        nfiles |-> CopiedCount(names, suffix) + 1,
        manifest |-> <<>>,
        complete |-> FALSE]

\* zipfile.ZipFile(name, "w") replaces an archive of the same name
WriteArchive(names, suffix) ==
  [k \in DOMAIN disk \cup {suffix} |->
     IF k = suffix THEN create_archive(names, suffix) ELSE disk[k]]

\* lines 200-202: zipfile.ZipFile(name, "w") creates or truncates the file;
\* until the with block ends the archive has no members and no directory
OpenedArchive(names, suffix) ==
  [k \in DOMAIN disk \cup {suffix} |->
     IF k = suffix
     THEN [docs |-> names, members |-> {}, nfiles |-> 0, manifest |-> <<>>,
           complete |-> FALSE]
     ELSE disk[k]]

\* ----------------------------------------------------------------- inputs
Letters == <<"a", "b", "c", "d", "e", "f">>

\* a single-page document named after its image: a.jpg, b.jpg, ...
PlainDoc(i) == <<Letters[i]>> \o DOT_JPG

A_PDF == <<"a">> \o DOT_PDF
BA_PDF == <<"b", "a">> \o DOT_PDF
A_JPG == <<"a">> \o DOT_JPG
Z_JPG == <<"z">> \o DOT_JPG

\* <document>_<page number>.jpg
PageFile(document_name, n) == document_name \o <<"_">> \o Str(n) \o DOT_JPG

HeaderRow == <<"files", "subset">>

\* a manifest with one row per document
FullManifest(docs) ==
  <<HeaderRow>> \o [i \in DOMAIN docs |-> <<docs[i], "TRAIN">>]

\* the state of the window after Window.__init__, no split started
InitProgram ==
  /\ start_size = 0
  /\ is_split_in_progress = FALSE
  /\ button = "normal"
  /\ error_label = [shown |-> TRUE, text |-> "", reason |-> ""]
  /\ current_zip_no_label = [shown |-> FALSE, text |-> "", n |-> 0]
  /\ pc = "idle"
  /\ idx = 0
  /\ image_names = <<>>
  /\ current_size = 0
  /\ archive_count = 0
  /\ exc = ""
  /\ disk = <<>>
  /\ create_archive_calls = <<>>
  /\ runs = <<>>
  /\ window = "open"
  /\ answer = ""

\* exports of up to MaxDocs single-page documents of every size, under
\* every pair of ceilings
InitSizes ==
  \E n \in 0..MaxDocs : \E sz \in [1..n -> 0..MaxSize] :
    /\ images = [x \in {PlainDoc(i) : i \in 1..n} |->
                   sz[CHOOSE i \in 1..n : PlainDoc(i) = x]]
    /\ latest = [i \in 1..n |-> [name |-> PlainDoc(i) \o DOT_JSON, size |-> 0]]
    /\ schema_size \in 0..MaxOverhead
    /\ split_size = 0
    /\ split_csv = FullManifest([i \in 1..n |-> PlainDoc(i)])
    /\ size_limit_in_bytes \in 1..MaxByteCeiling
    /\ page_limit \in 1..MaxPageLimit

\* the scenario of three documents of 100, 150 and 900 bytes
InitScenario ==
  /\ images = (PlainDoc(1) :> 100) @@ (PlainDoc(2) :> 150) @@ (PlainDoc(3) :> 900)
  /\ latest = [i \in 1..3 |-> [name |-> PlainDoc(i) \o DOT_JSON, size |-> 0]]
  /\ schema_size = 0
  /\ split_size = 0
  /\ split_csv = FullManifest([i \in 1..3 |-> PlainDoc(i)])
  /\ size_limit_in_bytes = 1000
  /\ page_limit = 10

\* exports whose document names contain one another, with continuation
\* pages and with primary files that may be missing
NameDocs == {A_PDF, BA_PDF, A_JPG}
PageCandidates == {PageFile(A_PDF, 1), PageFile(BA_PDF, 1), PageFile(A_JPG, 1)}

InitNames ==
  \E docs \in DistinctSeqs(NameDocs, 1, Cardinality(NameDocs)) :
  \E present \in SUBSET Range(docs) : \E pages \in SUBSET PageCandidates :
    /\ images = [x \in present \cup pages |-> 1]
    /\ latest = [i \in DOMAIN docs |-> [name |-> docs[i] \o DOT_JSON, size |-> 1]]
    /\ schema_size = 1
    /\ split_size = 1
    /\ split_csv = FullManifest(docs)
    /\ size_limit_in_bytes = 100
    /\ page_limit \in 1..MaxPageLimit

\* exports of two documents under every manifest of up to MaxRows rows:
\* rows of documents in and outside the export, repeated rows, blank lines,
\* and the manifest without any line
RowCandidates == {<<A_JPG, "TRAIN">>, <<PlainDoc(2), "VAL">>, <<Z_JPG, "TEST">>, <<>>}

InitManifest ==
  /\ images = (PlainDoc(1) :> 1) @@ (PlainDoc(2) :> 1)
  /\ latest = [i \in 1..2 |-> [name |-> PlainDoc(i) \o DOT_JSON, size |-> 1]]
  /\ schema_size = 1
  /\ split_size = 1
  /\ split_csv \in {<<>>} \cup
       {<<HeaderRow>> \o rows : rows \in SeqsUpTo(RowCandidates, MaxRows)}
  /\ size_limit_in_bytes = 100
  /\ page_limit \in 1..MaxPageLimit

Init ==
  /\ InitProgram
  /\ InitSizes \/ InitScenario \/ InitNames \/ InitManifest

\* ---------------------------------------------------------------- actions
\* the member files of the archives a run has written, by archive number
ArchiveFiles(d, calls) == [k \in DOMAIN calls |-> d[k].members]

UpdateZipStatusIgnoresFinished(text, n, is_split_finished) ==
  /\ current_zip_no_label' = [current_zip_no_label EXCEPT !.text = text, !.n = n]
  /\ UNCHANGED <<is_split_in_progress, button, error_label>>

\* Window.update_zip_status(message, is_split_finished), lines 101-106
update_zip_status(text, n, is_split_finished) ==
  /\ is_split_in_progress' = IF is_split_finished THEN FALSE ELSE is_split_in_progress
  /\ button' = IF is_split_finished THEN "active" ELSE button
  /\ current_zip_no_label' = [current_zip_no_label EXCEPT !.text = text, !.n = n]
  /\ UNCHANGED error_label

\* Window.perform_split, lines 89-99: the click on "Split zip"; Tk delivers
\* no click to a disabled button, nor to one of a destroyed window
perform_split ==
  /\ window = "open"
  /\ button # "disabled"
  /\ Len(runs) < MaxRuns
  /\ is_split_in_progress' = TRUE
  /\ current_zip_no_label' = [shown |-> TRUE, text |-> "", n |-> 0]
  /\ button' = "disabled"
  /\ error_label' = [error_label EXCEPT !.shown = FALSE]
  /\ pc' = "process_zip"
  /\ UNCHANGED <<input, start_size, locals, exc, disk, create_archive_calls, runs, user>>

\* process_zip, lines 141-159, up to the first loop test of split_files
\* (lines 163-168)
process_zip ==
  /\ pc = "process_zip"
  /\ start_size' = start_size + schema_size + split_size
  /\ image_names' = <<>>
  /\ current_size' = start_size'
  /\ archive_count' = 1
  /\ idx' = 1
  /\ create_archive_calls' = <<>>
  /\ pc' = "loop"
  /\ UNCHANGED <<input, gui, exc, disk, runs, user>>

MissingPrimarySkipped(image_name) ==
  /\ idx' = idx + 1
  /\ UNCHANGED <<pc, exc, image_names, current_size, archive_count>>

\* line 171: image_paths[image_name] raises KeyError for a document without
\* a primary file
MissingPrimary(image_name) ==
  /\ pc' = "raised"
  /\ exc' = "KeyError"
  /\ UNCHANGED locals

\* one pass of the loop body of split_files up to the branch, lines 170-175
LoopStep ==
  /\ pc = "loop"
  /\ idx <= Len(latest_paths)
  /\ LET image_name == latest_paths[idx] IN
       IF image_name \notin image_paths
       THEN MissingPrimary(image_name)
       ELSE LET size == DocSize(image_name) IN
            /\ current_size' = current_size + size
            /\ exc' = exc
            /\ IF Fits(current_size', image_names)
               THEN /\ image_names' = Append(image_names, image_name)
                    /\ idx' = idx + 1
                    /\ pc' = pc
               ELSE /\ pc' = "create_archive"
                    /\ UNCHANGED <<image_names, idx>>
            /\ UNCHANGED archive_count
  /\ UNCHANGED <<input, start_size, gui, disk, create_archive_calls, runs, user>>

\* create_archive is entered, lines 177 and 183: the output file is opened
\* for writing (lines 200-202)
OpenArchive ==
  /\ \/ pc = "create_archive" /\ pc' = "writing"
     \/ pc = "loop" /\ idx > Len(latest_paths) /\ pc' = "writing_last"
  /\ disk' = OpenedArchive(image_names, archive_count)
  /\ UNCHANGED <<input, start_size, gui, locals, exc, create_archive_calls, runs, user>>

\* the rest of the else branch of the loop body, lines 177-182
CloseArchive ==
  /\ pc = "writing"
  /\ LET image_name == latest_paths[idx]
         size == DocSize(image_name) IN
       /\ disk' = WriteArchive(image_names, archive_count)
       /\ create_archive_calls' = Append(create_archive_calls, image_names)
       /\ IF SplitFileError # ""
          THEN /\ pc' = "raised"
               /\ exc' = SplitFileError
               /\ UNCHANGED <<locals, gui>>
          ELSE /\ update_zip_status("Processed zip number", archive_count, FALSE)
               /\ archive_count' = archive_count + 1
               /\ current_size' = NewPartitionSize(size)
               /\ image_names' = NewPartition(image_name)
               /\ idx' = idx + 1
               /\ pc' = "loop"
               /\ exc' = exc
  /\ UNCHANGED <<input, start_size, runs, user>>

\* after the loop, the rest of lines 183-184; the thread ends
LastArchive ==
  /\ pc = "writing_last"
  /\ disk' = WriteArchive(image_names, archive_count)
  /\ create_archive_calls' = Append(create_archive_calls, image_names)
  /\ IF SplitFileError # ""
     THEN /\ pc' = "raised"
          /\ exc' = SplitFileError
          /\ UNCHANGED <<gui, runs>>
     ELSE /\ update_zip_status("Split zip finished with", archive_count, TRUE)
          /\ pc' = "idle"
          /\ exc' = exc
          /\ runs' = Append(runs, [outcome |-> "finished",
                                   start_size |-> start_size,
                                   calls |-> create_archive_calls',
                                   files |-> ArchiveFiles(disk', create_archive_calls')])
  /\ UNCHANGED <<input, start_size, locals, user>>

\* Window.handle_exception, lines 108-117, as threading.excepthook of the
\* worker thread; an exception instance is true, so the reason is shown
handle_exception ==
  /\ pc = "raised"
  /\ is_split_in_progress' = FALSE
  /\ current_zip_no_label' = [current_zip_no_label EXCEPT !.shown = FALSE]
  /\ button' = "active"
  /\ error_label' = [shown |-> TRUE, text |-> "Split failed.", reason |-> exc]
  /\ pc' = "idle"
  /\ exc' = ""
  /\ runs' = Append(runs, [outcome |-> "failed",
                           start_size |-> start_size,
                           calls |-> create_archive_calls,
                           files |-> ArchiveFiles(disk, create_archive_calls)])
  /\ UNCHANGED <<input, start_size, locals, disk, create_archive_calls, user>>

\* messagebox.askquestion returns the string "yes" or "no"; line 124 tests
\* the string itself, and a non-empty string is true
Truthy(s) == s # ""

\* the process is gone: its memory goes with it, the working directory stays
ProcessExit ==
  /\ pc' = "exited"
  /\ start_size' = 0
  /\ idx' = 0
  /\ image_names' = <<>>
  /\ current_size' = 0
  /\ archive_count' = 0
  /\ exc' = ""
  /\ create_archive_calls' = <<>>
  /\ runs' = <<>>

\* Window.on_close_gui, lines 119-126, bound to WM_DELETE_WINDOW (line 87).
\* With the window destroyed mainloop returns and main ends (lines 132-138),
\* or sys.exit() ends the main thread; the worker is a daemon thread
\* (line 98) and ends with the process wherever it stands. The widgets keep
\* what they showed last
on_close_gui ==
  /\ window = "open"
  /\ IF ~is_split_in_progress
     THEN /\ window' = "destroyed"
          /\ ProcessExit
          /\ UNCHANGED answer
     ELSE \E a \in {"yes", "no"} :
            /\ answer' = a
            /\ IF Truthy(a)
               THEN window' = "destroyed" /\ ProcessExit
               ELSE UNCHANGED <<window, start_size, pc, locals, exc,
                                create_archive_calls, runs>>
  /\ UNCHANGED <<input, gui, disk>>

Next ==
  \/ perform_split
  \/ process_zip
  \/ LoopStep
  \/ OpenArchive
  \/ CloseArchive
  \/ LastArchive
  \/ handle_exception
  \/ on_close_gui

Spec == Init /\ [][Next]_vars

\* the scheduler runs the worker thread until it ends; the click on the
\* button is the user's and may never come
Worker ==
  process_zip \/ LoopStep \/ OpenArchive \/ CloseArchive \/ LastArchive \/ handle_exception

FairSpec == Spec /\ WF_vars(Worker)

\* ------------------------------------------------------------- properties
\* the positions <<k, j>> of the document lists of calls
Positions(calls) ==
  UNION {{<<k, j>> : j \in DOMAIN calls[k]} : k \in DOMAIN calls}

\* how often document d is listed in calls
Occurrences(calls, d) ==
  Cardinality({p \in Positions(calls) : calls[p[1]][p[2]] = d})

RECURSIVE Flatten(_)
Flatten(calls) ==
  IF calls = <<>> THEN <<>> ELSE Head(calls) \o Flatten(Tail(calls))

RECURSIVE PartitionSize(_)
\* the sum of the total sizes of the documents of a partition
PartitionSize(p) ==
  IF p = <<>> THEN 0 ELSE DocSize(Head(p)) + PartitionSize(Tail(p))

FinishedRuns == {r \in DOMAIN runs : runs[r].outcome = "finished"}

\* C1: after split_files has finished, every document name of the metadata
\* inventory is listed exactly once in the document lists passed to
\* create_archive: none is dropped, none is in two partitions or twice in one.
C1_ExactlyOnePartition ==
  \A r \in FinishedRuns : \A i \in DOMAIN latest_paths :
    Occurrences(runs[r].calls, latest_paths[i]) = 1

\* a finished run that spread its documents over two non-empty archives
C1_Witness ==
  \E r \in FinishedRuns :
    /\ Len(latest_paths) >= 2
    /\ Len(runs[r].calls) = 2
    /\ \A k \in DOMAIN runs[r].calls : runs[r].calls[k] # <<>>

\* C2 as stated: every emitted partition has overhead plus the sizes of its
\* documents strictly below the byte ceiling, unless it holds exactly one
\* document whose size alone reaches the ceiling.
C2_BelowCeilingUnlessOversized ==
  \A k \in DOMAIN create_archive_calls :
    LET p == create_archive_calls[k] IN
      \/ start_size + PartitionSize(p) < size_limit_in_bytes
      \/ Len(p) = 1 /\ DocSize(p[1]) >= size_limit_in_bytes

\* C2 amended: every emitted partition has overhead plus the sizes of its
\* documents strictly below the byte ceiling, unless it holds at most one
\* document (one document whose size plus the overhead reaches the ceiling,
\* or none when the overhead alone reaches it).
C2_BelowCeilingUnlessAlone ==
  \A k \in DOMAIN create_archive_calls :
    LET p == create_archive_calls[k] IN
      \/ start_size + PartitionSize(p) < size_limit_in_bytes
      \/ Len(p) <= 1

\* one run emitted a partition below the ceiling and then a partition of a
\* single document that reaches the ceiling only together with the overhead
C2_Witness ==
  /\ create_archive_calls # <<>> /\ create_archive_calls[1] # <<>>
  /\ \E k \in DOMAIN create_archive_calls :
       LET p == create_archive_calls[k] IN
         /\ Len(p) = 1
         /\ DocSize(p[1]) < size_limit_in_bytes
         /\ start_size + DocSize(p[1]) >= size_limit_in_bytes

\* C3: every emitted partition holds at most page_limit documents, for every
\* page_limit >= 1; with page_limit 1 every document is alone in its
\* partition whatever the byte ceiling is.
C3_AtMostPageLimit ==
  \A k \in DOMAIN create_archive_calls :
    /\ Len(create_archive_calls[k]) <= page_limit
    /\ page_limit = 1 =>
         \A j \in DOMAIN create_archive_calls[k] :
           create_archive_calls[k] = <<create_archive_calls[k][j]>>

\* a partition was closed by the count ceiling alone: it is full, and the
\* next document would have fitted by size
C3_Witness ==
  /\ pc = "create_archive"
  /\ page_limit >= 2
  /\ Len(image_names) = page_limit
  /\ current_size < size_limit_in_bytes

\* in a finished run an oversized document is the only member of exactly one
\* partition
C4_OversizedAlone ==
  \A r \in FinishedRuns : \A i \in DOMAIN latest_paths :
    LET d == latest_paths[i] IN
      DocSize(d) > size_limit_in_bytes =>
        /\ Cardinality({k \in DOMAIN runs[r].calls : runs[r].calls[k] = <<d>>}) = 1
        /\ Occurrences(runs[r].calls, d) = 1

\* the number of worker steps a run can still take
ScanRank ==
  CASE pc \in {"idle", "exited"} -> 0
    [] pc = "raised" -> 1
    [] pc = "writing_last" -> 2
    [] pc = "writing" -> 3 * (Len(latest_paths) + 1 - idx) + 1
    [] pc = "create_archive" -> 3 * (Len(latest_paths) + 1 - idx) + 2
    [] pc = "loop" -> 3 * (Len(latest_paths) + 1 - idx) + 3
    [] pc = "process_zip" -> 3 * Len(latest_paths) + 6

\* C4: a document whose own total size exceeds the byte ceiling is not
\* rejected and does not stall the scan: every step of the worker brings the
\* end of the run nearer, and in a finished run the document is the only
\* member of exactly one emitted partition.
C4_OversizedNeverStalls ==
  /\ []C4_OversizedAlone
  /\ [][Worker => ScanRank >= 0 /\ ScanRank' < ScanRank]_vars

\* a finished run whose inventory has an oversized document followed by a
\* document that would fit
C4_Witness ==
  \E r \in FinishedRuns :
    /\ Len(latest_paths) >= 2
    /\ DocSize(latest_paths[1]) > size_limit_in_bytes
    /\ runs[r].start_size + DocSize(latest_paths[2]) < size_limit_in_bytes

RECURSIVE Greedy(_, _, _, _)
\* the reference pass: docs still to scan, the open partition, its running
\* size, the overhead
Greedy(docs, open, running, overhead) ==
  IF docs = <<>> THEN <<open>>
  ELSE LET d == Head(docs)
           projected == running + DocSize(d)
       IN IF projected < size_limit_in_bytes /\ Len(open) < page_limit
          THEN Greedy(Tail(docs), Append(open, d), projected, overhead)
          ELSE <<open>> \o Greedy(Tail(docs), <<d>>, overhead + DocSize(d), overhead)

\* C5: the partitions of a finished run are those of the greedy first-fit
\* pass in scan order (join iff running size + size < byte ceiling and the
\* open partition holds fewer than page_limit documents, else close it and
\* start the next at overhead + size), so their concatenation is the
\* inventory in enumeration order.
C5_GreedyFirstFit ==
  \A r \in FinishedRuns :
    /\ runs[r].calls =
         Greedy(latest_paths, <<>>, runs[r].start_size, runs[r].start_size)
    /\ Flatten(runs[r].calls) = latest_paths

\* the scenario 100, 150, 900 under ceilings 1000 and 10 with overhead 0
\* ended with [[doc1, doc2], [doc3]]
C5_Witness ==
  \E r \in FinishedRuns :
    /\ size_limit_in_bytes = 1000 /\ page_limit = 10 /\ runs[r].start_size = 0
    /\ [i \in DOMAIN latest_paths |-> DocSize(latest_paths[i])] = <<100, 150, 900>>
    /\ runs[r].calls = <<<<PlainDoc(1), PlainDoc(2)>>, <<PlainDoc(3)>>>>

\* C6: every run of the split on the same input archive under the same
\* ceilings, whether it follows a finished or a failed run, has the partition
\* membership and the file membership of the first run.
C6_RerunSameResult ==
  \A r \in DOMAIN runs :
    /\ runs[r].calls = runs[1].calls
    /\ runs[r].files = runs[1].files

\* C7: every zip file on disk has fewer than PAGE_LIMIT member files,
\* counting every file written into it (primary, metadata, continuation
\* pages, schema.json, split.csv). Two members are always schema.json and
\* split.csv, so the ceilings 1 and 2 are left out.
C7_FewerFilesThanPageLimit ==
  page_limit > 2 => \A k \in DOMAIN disk : disk[k].nfiles < page_limit

\* x is named <document>_<page number>.jpg
IsPageOf(x, document_name) ==
  \E n \in 1..9 : x = PageFile(document_name, n)

\* C8: in a finished run every continuation page of a multi-page document
\* is a member of the archive that holds the document and of no other
\* archive.
C8_PagesOnlyWithParent ==
  \A r \in FinishedRuns : \A i \in DOMAIN latest_paths : \A x \in image_paths :
    LET d == latest_paths[i] IN
      LastDotPart(d) \in MultiPageExtensions /\ IsPageOf(x, d) =>
        \A k \in DOMAIN runs[r].calls :
          [dir |-> "images", name |-> x] \in runs[r].files[k]
            <=> d \in Range(runs[r].calls[k])

\* the rows after the header of the source manifest
SourceRows == Tail(split_csv)

\* the positions of the source rows that name a document of docs
NamingRows(docs) == {i \in DOMAIN SourceRows : SourceRows[i][1] \in Range(docs)}

\* the j-th smallest element of a set of numbers
Nth(S, j) == CHOOSE i \in S : Cardinality({m \in S : m <= i}) = j

\* the manifest of an archive is the source header followed by exactly the
\* source rows naming a document of the archive, in their order
ManifestIsFilteredSource(a) ==
  /\ a.manifest # <<>>
  /\ Head(a.manifest) = Head(split_csv)
  /\ Len(a.manifest) = 1 + Cardinality(NamingRows(a.docs))
  /\ \A j \in 1..Cardinality(NamingRows(a.docs)) :
       a.manifest[j + 1] = SourceRows[Nth(NamingRows(a.docs), j)]

\* the documents of docs that appear in the source manifest
DocumentsInSource(docs) ==
  {d \in Range(docs) : \E i \in DOMAIN SourceRows : SourceRows[i][1] = d}

\* C9 as stated: the manifest written for a partition is the source header
\* followed by exactly the source rows naming a document of the partition,
\* in their order, and its row count is the number of partition documents
\* that appear in the source manifest.
C9_ManifestRowPerDocument ==
  \A k \in DOMAIN disk : disk[k].complete =>
    /\ ManifestIsFilteredSource(disk[k])
    /\ Len(disk[k].manifest) - 1 = Cardinality(DocumentsInSource(disk[k].docs))

\* no document is named by two rows of the source manifest
NoRepeatedRows ==
  \A i, j \in DOMAIN SourceRows :
    i # j /\ SourceRows[i] # <<>> /\ SourceRows[j] # <<>>
      => SourceRows[i][1] # SourceRows[j][1]

\* C9 amended: the manifest written for a partition is the source header
\* followed by exactly the source rows naming a document of the partition,
\* in their order; its row count is the number of those source rows, which
\* is the number of partition documents that appear in the source manifest
\* when no document is named by two source rows.
C9_ManifestFiltered ==
  \A k \in DOMAIN disk : disk[k].complete =>
    /\ ManifestIsFilteredSource(disk[k])
    /\ NoRepeatedRows =>
         Len(disk[k].manifest) - 1 = Cardinality(DocumentsInSource(disk[k].docs))

\* an archive of one document whose manifest kept one of three source rows,
\* one of the dropped rows naming a document outside the export
C9_Witness ==
  \E k \in DOMAIN disk :
    /\ disk[k].complete
    /\ Len(disk[k].docs) = 1
    /\ Len(split_csv) = 4
    /\ Len(disk[k].manifest) = 2
    /\ \E i \in DOMAIN SourceRows : SourceRows[i][1] = Z_JPG

\* the documents of the inventory without a primary file
MissingDocuments == {d \in Range(latest_paths) : d \notin image_paths}

LastRunFailed ==
  pc = "idle" /\ runs # <<>> /\ runs[Len(runs)].outcome = "failed"

C13_PagesAnchoredOnName ==
  pc = "loop" =>
    /\ \A i \in DOMAIN latest_paths : \A x \in get_pages_by_documents(latest_paths[i]) :
         /\ LastDotPart(latest_paths[i]) \in {<<"p", "d", "f">>, <<"t", "i", "f", "f">>,
                                             <<"t", "i", "f">>}
         /\ IsPageOf(x, latest_paths[i])
    /\ \A i, j \in DOMAIN latest_paths :
         i # j => get_pages_by_documents(latest_paths[i])
                    \cap get_pages_by_documents(latest_paths[j]) = {}

\* C14: when the inventory is not empty, no document list passed to
\* create_archive is empty, and the archive count of the final message is
\* the number of non-empty partitions.
C14_NoEmptyArchive ==
  latest_paths # <<>> =>
    /\ \A k \in DOMAIN create_archive_calls : create_archive_calls[k] # <<>>
    /\ pc = "idle" /\ current_zip_no_label.shown
         /\ current_zip_no_label.text = "Split zip finished with" =>
         current_zip_no_label.n =
           Cardinality({k \in DOMAIN create_archive_calls : create_archive_calls[k] # <<>>})

\* C15: while a split is in progress the window is destroyed and the process
\* exits only if the user answers yes, on no the window stays open and the
\* split keeps running; with no split in progress the window is destroyed
\* without the question being asked.
C15_ExitOnlyOnYes ==
  /\ window = "destroyed" /\ answer # "" => answer = "yes"
  /\ answer = "no" => window = "open" /\ pc # "exited"
  /\ window = "destroyed" /\ answer = "" => ~is_split_in_progress

\* C11: after the user closed the window during a split and confirmed, the
\* archive that was being written has been finished: every archive on disk
\* is complete (a manifest that cannot be filtered aside).
C11_CancelFinishesOpenArchive ==
  pc = "exited" /\ answer # "" /\ SplitFileError = "" =>
    \A k \in DOMAIN disk : disk[k].complete

\* the two terminal signals of a split
FinishedSignal ==
  current_zip_no_label.shown /\ current_zip_no_label.text = "Split zip finished with"

FailedSignal ==
  error_label.shown /\ error_label.text = "Split failed." /\ error_label.reason # ""

WorkerRuns == pc \notin {"idle", "exited"}

C12_SignalState ==
  /\ WorkerRuns =>
       /\ window = "open" /\ is_split_in_progress /\ button = "disabled"
       /\ ~FinishedSignal /\ ~FailedSignal
       /\ pc = "loop" => idx \in 1..(Len(latest_paths) + 1)
       /\ pc \in {"create_archive", "writing"} => idx \in DOMAIN latest_paths
  /\ pc = "idle" =>
       /\ ~is_split_in_progress /\ button # "disabled"
       /\ runs # <<>> =>
            /\ button = "active"
            /\ FinishedSignal <=> runs[Len(runs)].outcome = "finished"
            /\ FailedSignal <=> runs[Len(runs)].outcome = "failed"
            /\ FinishedSignal <=> ~FailedSignal
  /\ pc = "exited" =>
       /\ window = "destroyed"
       /\ ~(FinishedSignal /\ FailedSignal)
       /\ is_split_in_progress => button = "disabled" /\ ~FinishedSignal /\ ~FailedSignal

====
